---- MODULE Spec2Model ----
(***************************************************************************)
(* Model of release/pipeline/dags/istio_common_dag.py: the configuration   *)
(* merge, the bootstrap-script builder, the common DAG factory, one run of *)
(* the chain under the task runner, and the shell remote-sync sequence.    *)
(***************************************************************************)
EXTENDS Integers, Sequences, FiniteSets, TLC

VARIABLES
  \* MergeEnvironmentIntoConfig
  env_conf, config_dicts, config_settings, merge_pc,
  \* getBashSettingsTemplate / MakeCommonDag / addAirflowBashOperator
  default_lists, config_keys, first_call, last_call, dag,
  \* one chain under the task runner
  ti_state, attempts, xcom, lastResolve, nstarts,
  \* the bootstrap script executed by a bash step
  sh_pc, sh_template, sh_settings, sh_env, tmp_env_file, remote_env_file, staged, istio_code, cwd, sourced, nsteps

mergeVars  == <<env_conf, config_dicts, config_settings, merge_pc>>
scriptVars == <<default_lists, config_keys, first_call, last_call, dag>>
runVars    == <<ti_state, attempts, xcom, lastResolve, nstarts>>
shellVars  == <<sh_pc, sh_template, sh_settings, sh_env, tmp_env_file, remote_env_file, staged, istio_code, cwd, sourced, nsteps>>
vars       == <<mergeVars, scriptVars, runVars, shellVars>>

(***************************************************************************)
(* Python values                                                           *)
(***************************************************************************)
EmptyDict == [k \in {} |-> ""]

\* all dicts with keys among Ks and values among Vs
Dicts(Ks, Vs) == UNION {[D -> Vs] : D \in SUBSET Ks}

\* Python truthiness of a string value
Truthy(v) == v # ""

SeqsUpTo(S, n) == UNION {[1..m -> S] : m \in 0..n}

(***************************************************************************)
(* MergeEnvironmentIntoConfig                                              *)
(***************************************************************************)
MaxLayers == 2
MergeKeys == {"A", "B"}
MergeValues == {"", "1", "2", "3"}

\* env_conf.get(name) or value
MergeValue_layerFirst(env, name, value) ==
  IF Truthy(value) THEN value
  ELSE IF name \in DOMAIN env THEN env[name] ELSE value

MergeValue(env, name, value) ==
  IF name \in DOMAIN env /\ Truthy(env[name]) THEN env[name] ELSE value

\* for name, value in cur_conf_dict.items(): config_settings[name] = ...
MergeLayer_firstWins(settings, env, layer) ==
  [k \in DOMAIN settings \cup DOMAIN layer |->
     IF k \in DOMAIN settings THEN settings[k]
     ELSE MergeValue(env, k, layer[k])]

MergeLayer_skipEmpty(settings, env, layer) ==
  [k \in DOMAIN settings \cup DOMAIN layer |->
     IF k \in DOMAIN layer /\ (k \notin DOMAIN settings \/ Truthy(MergeValue(env, k, layer[k])))
       THEN MergeValue(env, k, layer[k])
       ELSE settings[k]]

MergeLayer(settings, env, layer) ==
  [k \in DOMAIN settings \cup DOMAIN layer |->
     IF k \in DOMAIN layer THEN MergeValue(env, k, layer[k])
     ELSE settings[k]]

RECURSIVE MergeLayers(_, _, _)
MergeLayers(settings, env, dicts) ==
  IF dicts = <<>> THEN settings
  ELSE MergeLayers(MergeLayer(settings, env, Head(dicts)), env, Tail(dicts))

\* config_settings = dict() ... return config_settings
MergeEnvironmentIntoConfig_fromEnv(env, dicts) == MergeLayers(env, env, dicts)

MergeEnvironmentIntoConfig(env, dicts) == MergeLayers(EmptyDict, env, dicts)

MergeIdle ==
  /\ env_conf = EmptyDict
  /\ config_dicts = <<>>
  /\ config_settings = EmptyDict
  /\ merge_pc = "idle"

InitMerge ==
  /\ env_conf \in Dicts(MergeKeys, MergeValues)
  /\ config_dicts \in SeqsUpTo(Dicts(MergeKeys, MergeValues), MaxLayers)
  /\ config_settings = EmptyDict
  /\ merge_pc = "called"

CallMerge ==
  /\ merge_pc = "called"
  /\ config_settings' = MergeEnvironmentIntoConfig(env_conf, config_dicts)
  /\ merge_pc' = "returned"
  /\ UNCHANGED <<env_conf, config_dicts>>

(***************************************************************************)
(* Strings: keys are compared and prefix-tested by their characters        *)
(***************************************************************************)
Chars(k) ==
  CASE k = "LOCAL_TMP_DIR" -> <<76, 79, 67, 65, 76, 95, 84, 77, 80, 95, 68, 73, 82>>
    [] k = "CB_GITHUB_ORG" -> <<67, 66, 95, 71, 73, 84, 72, 85, 66, 95, 79, 82, 71>>
    [] k = "CB_GCS_RELEASE_TOOLS_PATH" -> <<67, 66, 95, 71, 67, 83, 95, 82, 69, 76, 69, 65, 83, 69, 95, 84, 79, 79, 76, 83, 95, 80, 65, 84, 72>>
    [] k = "CB_EXTRA" -> <<67, 66, 95, 69, 88, 84, 82, 65>>

RECURSIVE CharsLess(_, _)
CharsLess(a, b) ==
  IF b = <<>> THEN FALSE
  ELSE IF a = <<>> THEN TRUE
  ELSE IF Head(a) < Head(b) THEN TRUE
  ELSE IF Head(a) > Head(b) THEN FALSE
  ELSE CharsLess(Tail(a), Tail(b))

\* Python's str ordering
StrLess(a, b) == CharsLess(Chars(a), Chars(b))

\* key.startswith("CB_")
StartsWithCB(key) ==
  Len(Chars(key)) >= 3 /\ SubSeq(Chars(key), 1, 3) = <<67, 66, 95>>

RECURSIVE InsertSorted(_, _)
InsertSorted(k, s) ==
  IF s = <<>> THEN <<k>>
  ELSE IF StrLess(k, Head(s)) THEN <<k>> \o s
  ELSE <<Head(s)>> \o InsertSorted(k, Tail(s))

\* keys.sort()
RECURSIVE SortKeys(_)
SortKeys(s) == IF s = <<>> THEN <<>> ELSE InsertSorted(Head(s), SortKeys(Tail(s)))

(***************************************************************************)
(* getBashSettingsTemplate                                                 *)
(***************************************************************************)
MaxExtra == 2
\* the key list kept by environment_config
KnownKeys == <<"LOCAL_TMP_DIR", "CB_GITHUB_ORG", "CB_GCS_RELEASE_TOOLS_PATH">>
ExtraKeyPool == {"CB_EXTRA", "CB_GITHUB_ORG"}
ExtraLists == SeqsUpTo(ExtraKeyPool, MaxExtra)

\* environment_config.GetDefaultAirflowConfigKeys(): a new list on every call
GetDefaultAirflowConfigKeys(ck) == ck

\* the list the caller of GetDefaultAirflowConfigKeys leaves behind in environment_config
ConfigKeysAfterCall(ck, keys) == ck

\* keys after the append loop and the sort
TemplateKeys(known, extra_param_lst) == SortKeys(known \o extra_param_lst)

TemplatePrefix == [op |-> "set_settings", task_ids |-> "generate_workflow_args"]
GcbEnvPrefix   == [op |-> "heredoc_open", file |-> "/tmp/gcb_env.sh"]
GcbEnvSuffix   == [op |-> "EOF"]
RemoteSync     == [op |-> "remote_sync"]
\* "export %s={{ settings.%s }}" % (key, key)
ExportLine(key) == [op |-> "export", key |-> key, field |-> key]

ExportLines(keys) == [i \in 1..Len(keys) |-> ExportLine(keys[i])]

IsLocalKey(key) == ~StartsWithCB(key)

getBashSettingsTemplate(known, extra_param_lst) ==
  LET keys == TemplateKeys(known, extra_param_lst)
  IN  <<TemplatePrefix, GcbEnvPrefix>>
        \o ExportLines(SelectSeq(keys, StartsWithCB))
        \o <<GcbEnvSuffix>>
        \o ExportLines(SelectSeq(keys, IsLocalKey))
        \o <<RemoteSync>>

\* the default-argument list object of a function after one call of getBashSettingsTemplate
DefaultArgAfterCall_aliased(d, usedDefault, keys) == IF usedDefault THEN keys ELSE d

DefaultArgAfterCall(d, usedDefault, keys) == d

(***************************************************************************)
(* MakeCommonDag and addAirflowBashOperator                                *)
(***************************************************************************)
default_args == [retries |-> 1, retry_delay_minutes |-> 5,
                 email_on_failure |-> TRUE, email_on_retry |-> FALSE,
                 depends_on_past |-> FALSE]

\* GetSettingTemplate(setting)
GetSettingTemplate(setting) ==
  [op |-> "xcom_attr", task_ids |-> "generate_workflow_args", field |-> setting]

\* "type %s\n     %s" % (cmd_name, cmd_name)
TypeAndRun(cmd_name) == [op |-> "type_and_run", cmd_name |-> cmd_name]

\* cmd = "\n".join([cmd_template, "type ..."])
BashCommand_regenerated(cmd_template, cmd_name) ==
  getBashSettingsTemplate(KnownKeys, <<>>) \o <<TypeAndRun(cmd_name)>>

BashCommand(cmd_template, cmd_name) == cmd_template \o <<TypeAndRun(cmd_name)>>

BashOperator(task_id, cmd, kwargs) ==
  [kind |-> "BashOperator", task_id |-> task_id, bash_command |-> cmd,
   kwargs |-> kwargs, upstream |-> {}]

PythonOperator(task_id, callable) ==
  [kind |-> "PythonOperator", task_id |-> task_id, python_callable |-> callable,
   provide_context |-> TRUE, kwargs |-> EmptyDict, upstream |-> {}]

GoogleCloudStorageCopyOperator(task_id, sb, so, db) ==
  [kind |-> "GoogleCloudStorageCopyOperator", task_id |-> task_id,
   source_bucket |-> sb, source_object |-> so, destination_bucket |-> db,
   kwargs |-> EmptyDict, upstream |-> {}]

\* tasks[task_id] = task
SetTask(tasks, task_id, task) ==
  [t \in DOMAIN tasks \cup {task_id} |-> IF t = task_id THEN task ELSE tasks[t]]

\* the closure addAirflowBashOperator(cmd_name, task_id, **kwargs) of one DAG
addAirflowBashOperator(d, cmd_name, task_id, kwargs) ==
  [d EXCEPT !.tasks =
     SetTask(d.tasks, task_id,
             BashOperator(task_id, BashCommand(d.cmd_template, cmd_name), kwargs))]

NoRetries == [retries |-> 0]

MakeCommonDag(name, extra_param_lst, cmd_template) ==
  LET d0 == [made |-> TRUE, name |-> name, catchup |-> FALSE,
             extra_param_lst |-> extra_param_lst,
             cmd_template |-> cmd_template,
             tasks |-> SetTask(EmptyDict, "generate_workflow_args",
                               PythonOperator("generate_workflow_args", "dag_args_func"))]
      d1 == addAirflowBashOperator(d0, "get_git_commit_cmd", "get_git_commit", EmptyDict)
      d2 == addAirflowBashOperator(d1, "build_template", "run_cloud_builder", EmptyDict)
      d3 == addAirflowBashOperator(d2, "test_command", "run_release_qualification_tests", NoRetries)
      d4 == addAirflowBashOperator(d3, "modify_values_command", "modify_values_helm", EmptyDict)
  IN  [d4 EXCEPT !.tasks =
         SetTask(d4.tasks, "copy_files_for_release",
                 GoogleCloudStorageCopyOperator("copy_files_for_release",
                    GetSettingTemplate("CB_GCS_BUILD_BUCKET"),
                    GetSettingTemplate("CB_GCS_STAGING_PATH"),
                    GetSettingTemplate("CB_GCS_STAGING_BUCKET")))]

NoDag == [made |-> FALSE, name |-> "", catchup |-> FALSE, extra_param_lst |-> <<>>,
          cmd_template |-> <<>>, tasks |-> EmptyDict]

ScriptIdle ==
  /\ default_lists = [getBashSettingsTemplate |-> <<>>, MakeCommonDag |-> <<>>]
  /\ config_keys = KnownKeys
  /\ first_call = {}
  /\ last_call = {}
  /\ dag = NoDag

InitScript == ScriptIdle

\* one execution of getBashSettingsTemplate with argument list x
TemplateCall(x, usedDefault) ==
  LET known == GetDefaultAirflowConfigKeys(config_keys)
      out   == getBashSettingsTemplate(known, x)
      this  == [extra |-> x, out |-> out]
  IN  /\ last_call' = {this}
      /\ first_call' \in (IF first_call = {} THEN {{}, {this}} ELSE {first_call})
      /\ config_keys' = ConfigKeysAfterCall(config_keys, TemplateKeys(known, x))
      /\ default_lists' =
           [default_lists EXCEPT !.getBashSettingsTemplate =
              DefaultArgAfterCall(@, usedDefault, TemplateKeys(known, x))]

\* getBashSettingsTemplate(x) called directly
CallTemplate ==
  /\ \E x \in ExtraLists : TemplateCall(x, FALSE)
  /\ UNCHANGED dag

\* getBashSettingsTemplate() called directly, with the default argument
CallTemplateDefault ==
  /\ TemplateCall(default_lists.getBashSettingsTemplate, TRUE)
  /\ UNCHANGED dag

DagNames == {"istio_daily_flow_test"}

\* MakeCommonDag(dag_args_func, name, extra_param_lst=x)
CallMakeCommonDag ==
  /\ ~dag.made
  /\ \E name \in DagNames, x \in ExtraLists \cup {default_lists.MakeCommonDag} :
       /\ TemplateCall(x, FALSE)
       /\ dag' = MakeCommonDag(name, x,
                   getBashSettingsTemplate(GetDefaultAirflowConfigKeys(config_keys), x))

AddCmdNames == {"publish_cmd"}
AddTaskIds  == {"custom_step", "get_git_commit"}
AddKwargs   == {EmptyDict, NoRetries}

\* a call of the returned addAirflowBashOperator
CallAddAirflowBashOperator ==
  /\ dag.made
  /\ \E c \in AddCmdNames, t \in AddTaskIds, kw \in AddKwargs :
       \* the operator constructor may reject a task id the DAG already holds
       \E raised \in (IF t \in DOMAIN dag.tasks THEN BOOLEAN ELSE {FALSE}) :
         dag' = IF raised THEN dag ELSE addAirflowBashOperator(dag, c, t, kw)
  /\ UNCHANGED <<default_lists, config_keys, first_call, last_call>>

(***************************************************************************)
(* Runs of the chain returned by MakeCommonDag under the task runner       *)
(***************************************************************************)
MaxStarts == 3
Runs == {"run1", "run2"}
EmptyString == <<>>

RunDag == MakeCommonDag("istio_daily_flow_test", <<>>, getBashSettingsTemplate(KnownKeys, <<>>))
TaskIds == DOMAIN RunDag.tasks

\* the settings python callables ask GetSettingPython for
PythonSettings == {"CB_GITHUB_ORG", "LOCAL_TMP_DIR"}
CopyFields == {"CB_GCS_BUILD_BUCKET", "CB_GCS_STAGING_PATH", "CB_GCS_STAGING_BUCKET"}
AllFields == {KnownKeys[i] : i \in 1..Len(KnownKeys)} \cup CopyFields

\* what dag_args_func may return in run r
FullSettings(r) == [f \in AllFields |-> <<r, f>>]
PartialSettings(r) == [f \in AllFields \ {"CB_GITHUB_ORG", "CB_GCS_STAGING_PATH"} |-> <<r, f>>]
ReturnChoices(r) == {FullSettings(r), PartialSettings(r)}

\* retries of a task: its own keyword argument, else the DAG's default_args
TaskRetries_sharedPolicy(task) == default_args.retries

TaskRetries(task) ==
  IF "retries" \in DOMAIN task.kwargs THEN task.kwargs.retries ELSE default_args.retries

\* the settings fields a task's templated attributes reference
TemplateFields(task) ==
  IF task.kind = "BashOperator"
    THEN {task.bash_command[i].field :
            i \in {j \in 1..Len(task.bash_command) : task.bash_command[j].op = "export"}}
  ELSE IF task.kind = "GoogleCloudStorageCopyOperator"
    THEN {task.source_bucket.field, task.source_object.field, task.destination_bucket.field}
  ELSE {}

\* {{ task_instance.xcom_pull(task_ids="generate_workflow_args").FIELD }} and
\* {{ settings.FIELD }}: an attribute that cannot be found renders as the empty string
RenderField(published, field) ==
  IF published # {} /\ field \in DOMAIN (CHOOSE m \in published : TRUE)
    THEN (CHOOSE m \in published : TRUE)[field]
    ELSE EmptyString

RenderTask(r, t, task, published) ==
  [run |-> r, task |-> t, form |-> "template", after |-> (published # {}),
   fields |-> TemplateFields(task),
   values |-> [f \in TemplateFields(task) |-> RenderField(published, f)],
   error |-> "none"]

\* ti.xcom_pull(task_ids='generate_workflow_args')[setting]
GetSettingPython(r, published, setting) ==
  IF published = {}
    THEN [run |-> r, task |-> "python_callable", form |-> "python", after |-> FALSE,
          fields |-> {setting},
          values |-> EmptyDict, error |-> "TypeError"]
  ELSE IF setting \notin DOMAIN (CHOOSE m \in published : TRUE)
    THEN [run |-> r, task |-> "python_callable", form |-> "python", after |-> TRUE,
          fields |-> {setting}, values |-> EmptyDict, error |-> "KeyError"]
  ELSE [run |-> r, task |-> "python_callable", form |-> "python", after |-> TRUE,
        fields |-> {setting}, values |-> [f \in {setting} |-> (CHOOSE m \in published : TRUE)[f]],
        error |-> "none"]

\* what the store holds for a task after one of its attempts succeeded
XComAfterSuccess(x, task, ret) == IF task.kind = "PythonOperator" THEN {ret} ELSE x

\* ... and after one of its attempts raised or exited non-zero
XComAfterFailure_partial(x, task, r) ==
  IF task.kind = "PythonOperator" THEN {[f \in {"LOCAL_TMP_DIR"} |-> <<r, f>>]} ELSE x

XComAfterFailure(x, task, r) == x

RunIdle ==
  /\ ti_state = [r \in Runs |-> [t \in TaskIds |-> "none"]]
  /\ attempts = [r \in Runs |-> [t \in TaskIds |-> 0]]
  /\ xcom = [r \in Runs |-> [t \in TaskIds |-> {}]]
  /\ lastResolve = {}
  /\ nstarts = 0

InitRun == RunIdle

\* the runner starts an attempt of task t in run r, rendering its templates first
StartTask(r, t) ==
  LET task == dag.tasks[t] IN
  /\ ti_state[r][t] \in {"none", "up_for_retry"}
  /\ \A u \in task.upstream : ti_state[r][u] = "success"
  /\ nstarts < MaxStarts
  /\ ti_state' = [ti_state EXCEPT ![r][t] = "running"]
  /\ attempts' = [attempts EXCEPT ![r][t] = @ + 1]
  /\ nstarts' = nstarts + 1
  /\ lastResolve' = IF TemplateFields(task) # {}
                      THEN {RenderTask(r, t, task, xcom[r]["generate_workflow_args"])}
                      ELSE lastResolve
  /\ UNCHANGED xcom

\* the attempt ends well: the callable returned, or the command exited with 0
SucceedTask(r, t) ==
  /\ ti_state[r][t] = "running"
  /\ ti_state' = [ti_state EXCEPT ![r][t] = "success"]
  /\ \E ret \in ReturnChoices(r) :
       xcom' = [xcom EXCEPT ![r][t] = XComAfterSuccess(@, dag.tasks[t], ret)]
  /\ UNCHANGED <<attempts, lastResolve, nstarts>>

\* the attempt ends badly: the callable raised, or the command exited non-zero
FailTask(r, t) ==
  /\ ti_state[r][t] = "running"
  /\ ti_state' = [ti_state EXCEPT ![r][t] =
                    IF attempts[r][t] <= TaskRetries(dag.tasks[t])
                      THEN "up_for_retry" ELSE "failed"]
  /\ xcom' = [xcom EXCEPT ![r][t] = XComAfterFailure(@, dag.tasks[t], r)]
  /\ UNCHANGED <<attempts, lastResolve, nstarts>>

\* a python callable of run r calls GetSettingPython(ti, setting)
CallGetSettingPython(r, setting) ==
  /\ lastResolve' = {GetSettingPython(r, xcom[r]["generate_workflow_args"], setting)}
  /\ UNCHANGED <<ti_state, attempts, xcom, nstarts>>

(***************************************************************************)
(* The bootstrap script as a bash step executes it                         *)
(***************************************************************************)
MaxSteps == 2

FileChars(n) ==
  CASE n = "json_parse_shared.sh" -> <<106, 115, 111, 110, 95, 112, 97, 114, 115, 101, 95, 115, 104, 97, 114, 101, 100, 46, 115, 104>>
    [] n = "airflow_scripts.sh" -> <<97, 105, 114, 102, 108, 111, 119, 95, 115, 99, 114, 105, 112, 116, 115, 46, 115, 104>>
    [] n = "get_commit.template.json" -> <<103, 101, 116, 95, 99, 111, 109, 109, 105, 116, 46, 116, 101, 109, 112, 108, 97, 116, 101, 46, 106, 115, 111, 110>>
    [] n = "gcb_lib.sh" -> <<103, 99, 98, 95, 108, 105, 98, 46, 115, 104>>

\* the glob *<suffix>
EndsWith(n, suffix) ==
  LET c == FileChars(n) IN
  Len(c) >= Len(suffix) /\ SubSeq(c, Len(c) - Len(suffix) + 1, Len(c)) = suffix

GlobSh(n) == EndsWith(n, <<115, 104>>)
GlobJson(n) == EndsWith(n, <<106, 115, 111, 110>>)

Path(dir, name) == [dir |-> dir, name |-> name]

\* release/ of the cloned master tree
CanonicalTree ==
  {Path("pipeline", "airflow_scripts.sh"), Path("gcb", "json_parse_shared.sh"),
   Path("gcb", "get_commit.template.json"), Path("gcb", "gcb_lib.sh")}

\* objects an operator may have staged under gs://${CB_GCS_RELEASE_TOOLS_PATH}
StagePool ==
  {Path("pipeline", "airflow_scripts.sh"), Path("gcb", "json_parse_shared.sh"),
   Path("gcb", "get_commit.template.json"), Path("pipeline", "json_parse_shared.sh")}

ToolsPath == <<"gs", "release-tools">>

\* cp istio-code/release/pipeline/*sh istio-code/release/gcb/json_parse_shared.sh istio-code/release/gcb/*json .
CanonicalSources(tree) ==
  {p \in tree : \/ p.dir = "pipeline" /\ GlobSh(p.name)
                \/ p.dir = "gcb" /\ p.name = "json_parse_shared.sh"
                \/ p.dir = "gcb" /\ GlobJson(p.name)}

\* gsutil -mq cp "gs://${CB_GCS_RELEASE_TOOLS_PATH}"/pipeline/*sh .
OverridePipelineSources(objs) == {p \in objs : p.dir = "pipeline" /\ GlobSh(p.name)}
\* gsutil -mq cp "gs://${CB_GCS_RELEASE_TOOLS_PATH}"/gcb/*json .
OverrideGcbJsonSources(objs) == {p \in objs : p.dir = "gcb" /\ GlobJson(p.name)}
\* gsutil -mq cp "gs://${CB_GCS_RELEASE_TOOLS_PATH}"/gcb/json_parse_shared.sh .
OverrideJsonParseSources(objs) == {p \in objs : p.dir = "gcb" /\ p.name = "json_parse_shared.sh"}

FileContent(from, p) == [from |-> from, dir |-> p.dir, name |-> p.name]

\* copy the files at paths into the directory wd, replacing files of the same name
CopyInto(wd, paths, from) ==
  [n \in DOMAIN wd \cup {p.name : p \in paths} |->
     IF \E p \in paths : p.name = n
       THEN FileContent(from, CHOOSE p \in paths : p.name = n)
       ELSE wd[n]]

\* b's entries over a's
Override_keepFirst(a, b) == [k \in DOMAIN a \cup DOMAIN b |-> IF k \in DOMAIN a THEN a[k] ELSE b[k]]

Override(a, b) == [k \in DOMAIN a \cup DOMAIN b |-> IF k \in DOMAIN b THEN b[k] ELSE a[k]]

\* the commands of the script, in the order of the text
ScriptOrder_canonicalLast ==
  <<"cat_heredoc", "export_local", "source_env_1", "download_env", "source_env_2",
    "upload_env", "git_clone", "cp_override_pipeline", "cp_override_gcb_json",
    "cp_override_json_parse", "cp_canonical", "source_airflow_scripts",
    "type_and_run", "done">>

ScriptOrder_uploadFirst ==
  <<"cat_heredoc", "export_local", "source_env_1", "upload_env", "download_env",
    "source_env_2", "git_clone", "cp_canonical", "cp_override_pipeline",
    "cp_override_gcb_json", "cp_override_json_parse", "source_airflow_scripts",
    "type_and_run", "done">>

ScriptOrder ==
  <<"cat_heredoc", "export_local", "source_env_1", "download_env", "source_env_2",
    "upload_env", "git_clone", "cp_canonical", "cp_override_pipeline",
    "cp_override_gcb_json", "cp_override_json_parse", "source_airflow_scripts",
    "type_and_run", "done">>

NextCmd(pc) ==
  LET i == CHOOSE j \in 1..Len(ScriptOrder) : ScriptOrder[j] = pc
  IN  ScriptOrder[i + 1]

\* the keys of the export lines inside the heredoc, and of those after it
EofIndex(tmpl) == CHOOSE i \in 1..Len(tmpl) : tmpl[i].op = "EOF"
ExportKeysBetween(tmpl, lo, hi) ==
  LET idx == SelectSeq([i \in 1..Len(tmpl) |-> i],
                       LAMBDA i : lo < i /\ i < hi /\ tmpl[i].op = "export")
  IN  [j \in 1..Len(idx) |-> tmpl[idx[j]].key]
HeredocKeys(tmpl) == ExportKeysBetween(tmpl, 0, EofIndex(tmpl))
LocalKeys(tmpl) == ExportKeysBetween(tmpl, EofIndex(tmpl), Len(tmpl) + 1)
SeqRange(sq) == {sq[i] : i \in 1..Len(sq)}

\* the rendered values of a step: the tools path is the one all runs share
ShellSettings(m) ==
  [k \in SeqRange(HeredocKeys(RunDag.cmd_template)) \cup SeqRange(LocalKeys(RunDag.cmd_template)) |->
     IF k = "CB_GCS_RELEASE_TOOLS_PATH" THEN ToolsPath ELSE RenderField({m}, k)]
ShellSettingsChoices == {ShellSettings(m) : m \in UNION {ReturnChoices(r) : r \in Runs}}

\* a chain built with extra_param_lst=["CB_EXTRA"], and what its dag_args_func returns
ExtraDag ==
  MakeCommonDag("istio_release_flow", <<"CB_EXTRA">>,
                getBashSettingsTemplate(KnownKeys, <<"CB_EXTRA">>))
ExtraSettings(r) == [f \in AllFields \cup {"CB_EXTRA"} |-> <<r, f>>]

\* the rendered values of a step whose command starts with tmpl
TemplateSettings(tmpl, m) ==
  [k \in SeqRange(HeredocKeys(tmpl)) \cup SeqRange(LocalKeys(tmpl)) |->
     IF k = "CB_GCS_RELEASE_TOOLS_PATH" THEN ToolsPath ELSE RenderField({m}, k)]

\* the bash steps that may run against the shared remote path
StepChoices ==
  {[tmpl |-> RunDag.cmd_template, settings |-> st] : st \in ShellSettingsChoices}
    \cup {[tmpl |-> ExtraDag.cmd_template,
           settings |-> TemplateSettings(ExtraDag.cmd_template, ExtraSettings(r))] : r \in Runs}

Restrict(f, S) == [k \in DOMAIN f \cap S |-> f[k]]

\* ${CB_GCS_RELEASE_TOOLS_PATH} names the modelled remote path
ToolsPathSet(env) ==
  "CB_GCS_RELEASE_TOOLS_PATH" \in DOMAIN env /\ env["CB_GCS_RELEASE_TOOLS_PATH"] = ToolsPath

ShellIdle ==
  /\ sh_pc = "idle"
  /\ sh_template = <<>>
  /\ sh_settings = EmptyDict
  /\ sh_env = EmptyDict
  /\ tmp_env_file = {}
  /\ remote_env_file = {}
  /\ staged = {}
  /\ istio_code = {}
  /\ cwd = EmptyDict
  /\ sourced = {}
  /\ nsteps = 0

InitShell ==
  /\ sh_pc = "cat_heredoc"
  /\ \E step \in StepChoices : sh_template = step.tmpl /\ sh_settings = step.settings
  /\ sh_env = EmptyDict
  /\ tmp_env_file = {}
  /\ remote_env_file = {}
  /\ staged \in SUBSET StagePool
  /\ istio_code = {}
  /\ cwd = EmptyDict
  /\ sourced = {}
  /\ nsteps = 1

Advance == sh_pc' = NextCmd(sh_pc)

\* cat << EOF > "/tmp/gcb_env.sh" ... EOF
CatHeredoc ==
  /\ sh_pc = "cat_heredoc" /\ Advance
  /\ tmp_env_file' = {Restrict(sh_settings, SeqRange(HeredocKeys(sh_template)))}
  /\ UNCHANGED <<sh_template, sh_settings, sh_env, remote_env_file, staged, istio_code, cwd, sourced, nsteps>>

\* export KEY=... for the keys outside the heredoc
ExportLocal ==
  /\ sh_pc = "export_local" /\ Advance
  /\ sh_env' = Override(sh_env, Restrict(sh_settings, SeqRange(LocalKeys(sh_template))))
  /\ UNCHANGED <<sh_template, sh_settings, tmp_env_file, remote_env_file, staged, istio_code, cwd, sourced, nsteps>>

\* source "/tmp/gcb_env.sh"
SourceEnv ==
  /\ sh_pc \in {"source_env_1", "source_env_2"} /\ Advance
  /\ sh_env' = IF tmp_env_file = {} THEN sh_env
               ELSE Override(sh_env, CHOOSE f \in tmp_env_file : TRUE)
  /\ UNCHANGED <<sh_template, sh_settings, tmp_env_file, remote_env_file, staged, istio_code, cwd, sourced, nsteps>>

\* gsutil -q cp "gs://${CB_GCS_RELEASE_TOOLS_PATH}/gcb_env.sh" "/tmp/gcb_env.sh"
DownloadEnv ==
  /\ sh_pc = "download_env" /\ Advance
  /\ tmp_env_file' = IF ToolsPathSet(sh_env) /\ remote_env_file # {}
                       THEN remote_env_file ELSE tmp_env_file
  /\ UNCHANGED <<sh_template, sh_settings, sh_env, remote_env_file, staged, istio_code, cwd, sourced, nsteps>>

\* gsutil -q cp "/tmp/gcb_env.sh" "gs://${CB_GCS_RELEASE_TOOLS_PATH}/"
UploadEnv ==
  /\ sh_pc = "upload_env" /\ Advance
  /\ remote_env_file' = IF ToolsPathSet(sh_env) /\ tmp_env_file # {}
                          THEN tmp_env_file ELSE remote_env_file
  /\ UNCHANGED <<sh_template, sh_settings, sh_env, tmp_env_file, staged, istio_code, cwd, sourced, nsteps>>

\* git clone ".../istio.git" "istio-code" -b "master" --depth 1
GitClone ==
  /\ sh_pc = "git_clone" /\ Advance
  /\ istio_code' = CanonicalTree
  /\ UNCHANGED <<sh_template, sh_settings, sh_env, tmp_env_file, remote_env_file, staged, cwd, sourced, nsteps>>

CpCanonical ==
  /\ sh_pc = "cp_canonical" /\ Advance
  /\ cwd' = CopyInto(cwd, CanonicalSources(istio_code), "canonical")
  /\ UNCHANGED <<sh_template, sh_settings, sh_env, tmp_env_file, remote_env_file, staged, istio_code, sourced, nsteps>>

RemoteObjects == IF ToolsPathSet(sh_env) THEN staged ELSE {}

CpOverridePipeline ==
  /\ sh_pc = "cp_override_pipeline" /\ Advance
  /\ cwd' = CopyInto(cwd, OverridePipelineSources(RemoteObjects), "override")
  /\ UNCHANGED <<sh_template, sh_settings, sh_env, tmp_env_file, remote_env_file, staged, istio_code, sourced, nsteps>>

CpOverrideGcbJson ==
  /\ sh_pc = "cp_override_gcb_json" /\ Advance
  /\ cwd' = CopyInto(cwd, OverrideGcbJsonSources(RemoteObjects), "override")
  /\ UNCHANGED <<sh_template, sh_settings, sh_env, tmp_env_file, remote_env_file, staged, istio_code, sourced, nsteps>>

CpOverrideJsonParse ==
  /\ sh_pc = "cp_override_json_parse" /\ Advance
  /\ cwd' = CopyInto(cwd, OverrideJsonParseSources(RemoteObjects), "override")
  /\ UNCHANGED <<sh_template, sh_settings, sh_env, tmp_env_file, remote_env_file, staged, istio_code, sourced, nsteps>>

\* source airflow_scripts.sh: the working directory as the sourced script finds it
SourceAirflowScripts ==
  /\ sh_pc = "source_airflow_scripts" /\ Advance
  /\ sourced' = {[files |-> cwd, env |-> sh_env]}
  /\ UNCHANGED <<sh_template, sh_settings, sh_env, tmp_env_file, remote_env_file, staged, istio_code, cwd, nsteps>>

\* type <cmd>; <cmd>
TypeAndRunCmd ==
  /\ sh_pc = "type_and_run" /\ Advance
  /\ UNCHANGED <<sh_template, sh_settings, sh_env, tmp_env_file, remote_env_file, staged, istio_code, cwd, sourced, nsteps>>

\* the next bash step: a new shell in a new temporary working directory
NewBashStep ==
  /\ sh_pc = "done"
  /\ nsteps < MaxSteps
  /\ nsteps' = nsteps + 1
  /\ sh_pc' = "cat_heredoc"
  /\ \E step \in StepChoices : sh_template' = step.tmpl /\ sh_settings' = step.settings
  /\ sh_env' = EmptyDict
  /\ istio_code' = {}
  /\ cwd' = EmptyDict
  /\ sourced' = {}
  /\ UNCHANGED <<tmp_env_file, remote_env_file, staged>>

(***************************************************************************)
(* Specifications                                                          *)
(***************************************************************************)
InitM == InitMerge /\ ScriptIdle /\ RunIdle /\ ShellIdle
NextM == CallMerge /\ UNCHANGED <<scriptVars, runVars, shellVars>>
SpecMerge == InitM /\ [][NextM]_vars

InitS == MergeIdle /\ InitScript /\ RunIdle /\ ShellIdle
NextS ==
  /\ \/ CallTemplate
     \/ CallTemplateDefault
     \/ CallMakeCommonDag
     \/ CallAddAirflowBashOperator
  /\ UNCHANGED <<mergeVars, runVars, shellVars>>
SpecScript == InitS /\ [][NextS]_vars

RunScriptInit ==
  /\ default_lists = [getBashSettingsTemplate |-> <<>>, MakeCommonDag |-> <<>>]
  /\ config_keys = KnownKeys
  /\ first_call = {}
  /\ last_call = {}
  /\ dag = RunDag

InitR == MergeIdle /\ RunScriptInit /\ InitRun /\ ShellIdle
NextR ==
  /\ \/ \E r \in Runs, t \in TaskIds : StartTask(r, t)
     \/ \E r \in Runs, t \in TaskIds : SucceedTask(r, t)
     \/ \E r \in Runs, t \in TaskIds : FailTask(r, t)
     \/ \E r \in Runs, f \in PythonSettings : CallGetSettingPython(r, f)
  /\ UNCHANGED <<mergeVars, scriptVars, shellVars>>
SpecRun == InitR /\ [][NextR]_vars

InitB == MergeIdle /\ RunScriptInit /\ RunIdle /\ InitShell
NextB ==
  /\ \/ CatHeredoc
     \/ ExportLocal
     \/ SourceEnv
     \/ DownloadEnv
     \/ UploadEnv
     \/ GitClone
     \/ CpCanonical
     \/ CpOverridePipeline
     \/ CpOverrideGcbJson
     \/ CpOverrideJsonParse
     \/ SourceAirflowScripts
     \/ TypeAndRunCmd
     \/ NewBashStep
  /\ UNCHANGED <<mergeVars, scriptVars, runVars>>
SpecShell == InitB /\ [][NextB]_vars

(***************************************************************************)
(* Properties                                                              *)
(***************************************************************************)
Resolver == "generate_workflow_args"
SettingsReaders == {t \in DOMAIN dag.tasks : TemplateFields(dag.tasks[t]) # {}}

\* C1: in every run, no step that reads the resolved settings is running unless
\* generate_workflow_args has succeeded in that run, and once
\* generate_workflow_args has failed for good no such step has ever been started.
C1_ReadersWaitForResolver ==
  \A r \in Runs : \A t \in SettingsReaders :
    /\ ti_state[r][t] = "running" => ti_state[r][Resolver] = "success"
    /\ ti_state[r][Resolver] = "failed" => attempts[r][t] = 0

CanonicalAndStaged == CanonicalSources(CanonicalTree) \cap staged

\* C2: when `source airflow_scripts.sh` runs, every file that was copied from the
\* cloned tree and is also staged as an override holds the override's content.
C2_OverrideWins ==
  \A s \in sourced : \A p \in CanonicalAndStaged :
    /\ p.name \in DOMAIN s.files
    /\ s.files[p.name] = FileContent("override", p)

C2_Witness ==
  \E s \in sourced :
    /\ \E p \in CanonicalAndStaged : s.files[p.name].from = "override"
    /\ \E q \in CanonicalSources(CanonicalTree) \ staged :
         q.name \in DOMAIN s.files /\ s.files[q.name].from = "canonical"

LayerKeysDefined == UNION {DOMAIN config_dicts[i] : i \in 1..Len(config_dicts)}

\* C3: for every key defined in some named layer, a present and non-empty value
\* of the env-override mapping is the merged value, whatever the layers hold.
C3_EnvOverrideWins ==
  merge_pc = "returned" =>
    \A k \in LayerKeysDefined :
      (k \in DOMAIN env_conf /\ env_conf[k] # "") =>
        (k \in DOMAIN config_settings /\ config_settings[k] = env_conf[k])

C3_Witness ==
  /\ merge_pc = "returned"
  /\ Len(config_dicts) = 2
  /\ \E k \in DOMAIN config_dicts[1] \cap DOMAIN config_dicts[2] \cap DOMAIN env_conf :
       /\ env_conf[k] # ""
       /\ config_dicts[1][k] \notin {"", env_conf[k]}
       /\ config_dicts[2][k] \notin {"", env_conf[k], config_dicts[1][k]}
       /\ config_settings[k] = env_conf[k]

LastDefining(k) ==
  CHOOSE i \in 1..Len(config_dicts) :
    /\ k \in DOMAIN config_dicts[i]
    /\ \A j \in (i + 1)..Len(config_dicts) : k \notin DOMAIN config_dicts[j]

ExampleDefaults == [k \in {"A", "B"} |-> IF k = "A" THEN "1" ELSE "2"]
ExamplePipelineOverrides == [k \in {"B"} |-> "3"]
ExampleMerged == [k \in {"A", "B"} |-> IF k = "A" THEN "1" ELSE "3"]

\* C4: a key that the env-override mapping lacks or leaves empty gets the value
\* of the last layer, in argument order, that defines it; the documented example
\* defaults={A:"1",B:"2"}, pipelineOverrides={B:"3"}, E={} yields {A:"1",B:"3"}.
C4_LaterLayerWins ==
  merge_pc = "returned" =>
    /\ \A k \in LayerKeysDefined :
         (k \notin DOMAIN env_conf \/ env_conf[k] = "") =>
           (k \in DOMAIN config_settings
            /\ config_settings[k] = config_dicts[LastDefining(k)][k])
    /\ (env_conf = EmptyDict /\ config_dicts = <<ExampleDefaults, ExamplePipelineOverrides>>)
         => config_settings = ExampleMerged

C4_Witness ==
  /\ merge_pc = "returned"
  /\ env_conf = EmptyDict
  /\ config_dicts = <<ExampleDefaults, ExamplePipelineOverrides>>
  /\ config_settings = ExampleMerged

TestStep == "run_release_qualification_tests"
RetriedBashSteps == {"get_git_commit", "run_cloud_builder", "modify_values_helm"}

\* C5: the test step is attempted at most once and fails for good on its first
\* failure; the other bash steps of MakeCommonDag wait for a second attempt after
\* a first failure, fail for good only on the second, and are never attempted a
\* third time.
C5_RetryPolicy ==
  \A r \in Runs :
    /\ attempts[r][TestStep] <= 1
    /\ ti_state[r][TestStep] # "up_for_retry"
    /\ ti_state[r][TestStep] = "failed" => attempts[r][TestStep] = 1
    /\ \A t \in RetriedBashSteps :
         /\ attempts[r][t] <= 2
         /\ ti_state[r][t] = "up_for_retry" => attempts[r][t] = 1
         /\ ti_state[r][t] = "failed" => attempts[r][t] = 2

C5_Witness ==
  \E r \in Runs :
    /\ ti_state[r][TestStep] = "failed" /\ attempts[r][TestStep] = 1
    /\ ti_state[r]["run_cloud_builder"] = "running" /\ attempts[r]["run_cloud_builder"] = 2

CountKey(keys, k) == Cardinality({i \in 1..Len(keys) : keys[i] = k})
IsSortedKeys(keys) == \A i \in 1..Len(keys) : \A j \in (i + 1)..Len(keys) : ~StrLess(keys[j], keys[i])

\* C6: every distinct key of the known and extra keys is exported exactly once in
\* the whole script, inside the heredoc iff it begins with "CB_", and each block
\* lists its keys in lexicographic order.
C6_EachKeyExportedOnce ==
  \A c \in last_call :
    LET hk == HeredocKeys(c.out)
        lk == LocalKeys(c.out)
    IN  /\ \A k \in SeqRange(KnownKeys) \cup SeqRange(c.extra) :
             /\ CountKey(hk, k) + CountKey(lk, k) = 1
             /\ CountKey(hk, k) = 1 <=> StartsWithCB(k)
        /\ IsSortedKeys(hk)
        /\ IsSortedKeys(lk)

C8_ResolveExactOrFail ==
  \A e \in lastResolve :
    e.after =>
      \A m \in xcom[e.run][Resolver] : \A f \in e.fields :
        IF f \in DOMAIN m
          THEN f \in DOMAIN e.values /\ e.values[f] = m[f]
          ELSE f \notin DOMAIN e.values /\ e.error # "none"

\* C9: the mapping stored under generate_workflow_args changes only from nothing to
\* a mapping dag_args_func returned for that run, in the step in which an attempt
\* of generate_workflow_args of that run succeeds; nothing else is ever stored.
C9_PublishedOnce ==
  [][\A r \in Runs : \A t \in TaskIds :
       xcom'[r][t] # xcom[r][t] =>
         /\ t = Resolver
         /\ xcom[r][t] = {}
         /\ ti_state[r][t] = "running"
         /\ ti_state'[r][t] = "success"
         /\ xcom'[r][t] \subseteq ReturnChoices(r)
         /\ Cardinality(xcom'[r][t]) = 1]_vars

C9_Witness ==
  /\ xcom["run1"][Resolver] # {}
  /\ attempts["run1"][Resolver] = 2
  /\ xcom["run2"][Resolver] # {}
  /\ xcom["run1"][Resolver] # xcom["run2"][Resolver]

FixedBashSteps == RetriedBashSteps \cup {TestStep}

\* every bash step of d is recorded under its own id with the bootstrap script
\* generated for d followed by one step-specific command
ShellStepsPrefixed(d) ==
  /\ d.cmd_template = getBashSettingsTemplate(KnownKeys, d.extra_param_lst)
  /\ \A id \in FixedBashSteps : id \in DOMAIN d.tasks /\ d.tasks[id].kind = "BashOperator"
  /\ \A id \in DOMAIN d.tasks :
       /\ d.tasks[id].task_id = id
       /\ d.tasks[id].kind = "BashOperator" =>
            LET cmd == d.tasks[id].bash_command IN
            /\ Len(cmd) = Len(d.cmd_template) + 1
            /\ SubSeq(cmd, 1, Len(d.cmd_template)) = d.cmd_template
            /\ cmd[Len(cmd)].op = "type_and_run"

ChangedEntries ==
  {id \in DOMAIN dag'.tasks : id \notin DOMAIN dag.tasks \/ dag'.tasks[id] # dag.tasks[id]}

\* C10 as stated: every bash step carries the bootstrap prefix and is recorded
\* under its id, and a call of addAirflowBashOperator leaves the entry of every
\* step added earlier as it was.
C10_AddNeverChangesEarlier ==
  [][/\ dag'.made => ShellStepsPrefixed(dag')
     /\ dag.made => \A id \in DOMAIN dag.tasks :
                      id \in DOMAIN dag'.tasks /\ dag'.tasks[id] = dag.tasks[id]]_vars

\* C10 amended: every bash step carries the bootstrap prefix and is recorded under
\* its id; a call of addAirflowBashOperator changes at most the entry of the task
\* id it was given, so a new id leaves every earlier entry as it was.
C10_AddChangesOnlyItsId ==
  [][/\ dag'.made => ShellStepsPrefixed(dag')
     /\ dag.made =>
          /\ DOMAIN dag.tasks \subseteq DOMAIN dag'.tasks
          /\ Cardinality(ChangedEntries) <= 1
          /\ \A id \in ChangedEntries : dag'.tasks[id].kind = "BashOperator"]_vars

C10_Witness ==
  /\ dag.made
  /\ dag.extra_param_lst # <<>>
  /\ "custom_step" \in DOMAIN dag.tasks
  /\ dag.tasks["get_git_commit"].bash_command[Len(dag.cmd_template) + 1].cmd_name = "publish_cmd"
  /\ dag.tasks["run_cloud_builder"].bash_command = BashCommand(dag.cmd_template, "build_template")

EnvSets(k) == k \in DOMAIN env_conf /\ env_conf[k] # ""

\* the layers that give k a non-empty value
NonEmptyDefining(k) ==
  {i \in 1..Len(config_dicts) : k \in DOMAIN config_dicts[i] /\ config_dicts[i][k] # ""}

Max(S) == CHOOSE i \in S : \A j \in S : j <= i

\* C11 as stated: a layer's empty value for k does not override, so without a
\* non-empty env value the result is the value of the last layer that gives k a
\* non-empty value, if there is one; a non-empty env value is the result.
C11_EmptyLayerKeepsEarlier ==
  merge_pc = "returned" =>
    \A k \in LayerKeysDefined :
      /\ EnvSets(k) => config_settings[k] = env_conf[k]
      /\ (~EnvSets(k) /\ NonEmptyDefining(k) # {}) =>
           config_settings[k] = config_dicts[Max(NonEmptyDefining(k))][k]

\* C11 amended: only an empty value of the env-override mapping is treated as not
\* overriding; an empty value of a later layer replaces the non-empty value of an
\* earlier layer, so the result is empty exactly when the last layer defining k
\* gives it an empty value and the env value is absent or empty.
C11_EmptyLayerClears ==
  merge_pc = "returned" =>
    \A k \in LayerKeysDefined :
      /\ EnvSets(k) => config_settings[k] = env_conf[k]
      /\ ~EnvSets(k) =>
           (config_settings[k] = "" <=> LastDefining(k) \notin NonEmptyDefining(k))
      /\ ~EnvSets(k) => config_settings[k] = config_dicts[LastDefining(k)][k]

C11_Witness ==
  /\ merge_pc = "returned"
  /\ Len(config_dicts) = 2
  /\ \E k \in DOMAIN config_dicts[1] \cap DOMAIN config_dicts[2] :
       /\ config_dicts[1][k] # ""
       /\ config_dicts[2][k] = ""
       /\ k \in DOMAIN env_conf /\ env_conf[k] = ""
       /\ config_settings[k] = ""

\* C14: the call leaves the env-override mapping and the layers as they were, and
\* the keys of its result are exactly the keys of the named layers, so a key that
\* only the env-override mapping has is not in the result.
C14_ResultKeysAreLayerKeys ==
  [][(merge_pc = "called" /\ merge_pc' = "returned") =>
       /\ env_conf' = env_conf
       /\ config_dicts' = config_dicts
       /\ DOMAIN config_settings' = UNION {DOMAIN config_dicts[i] : i \in 1..Len(config_dicts)}
       /\ \A k \in DOMAIN env_conf \ LayerKeysDefined : k \notin DOMAIN config_settings']_vars

C14_Witness ==
  /\ merge_pc = "returned"
  /\ Len(config_dicts) = 2
  /\ DOMAIN config_dicts[1] # DOMAIN config_dicts[2]
  /\ LayerKeysDefined # {}
  /\ \E k \in DOMAIN env_conf \ LayerKeysDefined : env_conf[k] # ""
  /\ DOMAIN config_settings = LayerKeysDefined

\* what the heredoc of the current step writes
StepHeredoc == Restrict(sh_settings, SeqRange(HeredocKeys(sh_template)))

\* C12 as stated: the upload stores a file that exports every CB_ key of this
\* step's heredoc and keeps every value of the remote copy it replaces.
C12_UploadIsMerged ==
  [][(sh_pc = "upload_env" /\ sh_pc' # sh_pc) =>
       \A new \in remote_env_file' :
         /\ DOMAIN StepHeredoc \subseteq DOMAIN new
         /\ \A old \in remote_env_file : \A k \in DOMAIN old :
              k \in DOMAIN new /\ new[k] = old[k]]_vars

\* C12 amended: the upload stores the remote copy it found, unchanged, when there
\* was one, and the file written by this step's heredoc when there was none.
C12_UploadIsRemoteOrLocal ==
  [][(sh_pc = "upload_env" /\ sh_pc' # sh_pc) =>
       remote_env_file' = IF remote_env_file # {} THEN remote_env_file ELSE {StepHeredoc}]_vars

C12_Witness ==
  /\ nsteps = 2
  /\ sh_pc = "git_clone"
  /\ "CB_EXTRA" \in DOMAIN StepHeredoc
  /\ \E f \in remote_env_file :
       /\ "CB_EXTRA" \notin DOMAIN f
       /\ f["CB_GITHUB_ORG"] # StepHeredoc["CB_GITHUB_ORG"]

\* C13 as stated: when `source airflow_scripts.sh` runs, every CB_ key this step's
\* settings set has this step's value in the shell.
C13_OwnValuesVisible ==
  \A s \in sourced : \A k \in DOMAIN StepHeredoc :
    StepHeredoc[k] # EmptyString => (k \in DOMAIN s.env /\ s.env[k] = StepHeredoc[k])

\* C13 amended: when `source airflow_scripts.sh` runs, every CB_ key the stored
\* remote file exports has the remote file's value in the shell, and only a CB_
\* key the remote file lacks has this step's value.
C13_RemoteValuesVisible ==
  \A s \in sourced : \A f \in remote_env_file :
    /\ \A k \in DOMAIN f : k \in DOMAIN s.env /\ s.env[k] = f[k]
    /\ \A k \in DOMAIN StepHeredoc \ DOMAIN f : k \in DOMAIN s.env /\ s.env[k] = StepHeredoc[k]

C13_Witness ==
  /\ nsteps = 2
  /\ \E s \in sourced : \E f \in remote_env_file :
       /\ "CB_EXTRA" \in DOMAIN StepHeredoc \ DOMAIN f
       /\ s.env["CB_EXTRA"] = StepHeredoc["CB_EXTRA"]
       /\ StepHeredoc["CB_GITHUB_ORG"] # EmptyString
       /\ f["CB_GITHUB_ORG"] # EmptyString
       /\ s.env["CB_GITHUB_ORG"] = f["CB_GITHUB_ORG"]
       /\ s.env["CB_GITHUB_ORG"] # StepHeredoc["CB_GITHUB_ORG"]

====
